---- MODULE Spec2Model ----
(***************************************************************************)
(* A model of pydrivesync: the interactive shell (main.py), the            *)
(* instruction runner (main.py, file_manager.py) and the tree operations   *)
(* with their name cache (drive.py), over a model of the remote store and  *)
(* of the local file system.                                               *)
(*                                                                         *)
(* A handler of the shell is one action.  The functions of drive.py are    *)
(* operators over a "world" record w (remote store, name cache, local file *)
(* system, the requests sent so far) that return [w, ret, exc]: the world  *)
(* after the call, the returned value and the exception that left the      *)
(* function, if any.                                                       *)
(***************************************************************************)
EXTENDS Integers, Sequences, FiniteSets, TLC

VARIABLES
    remote,     \* the remote store: a set of RemoteItem records
    cache,      \* drive.existing_files_cache: name -> entry
    fs,         \* the local file system: a set of [path, kind]
    pc,         \* where main() is: "auth" (in authenticate), "loop" (at the top
                \* of the menu loop), "menu" (at the prompt), "exited", "crashed"
    service,    \* the handle authenticate() holds
    tokenFile,  \* whether Tokens/token.json exists
    last        \* what the last handler did (its calls, returns, requests)

vars == <<remote, cache, fs, pc, service, tokenFile, last>>

----------------------------------------------------------------------------
(* Bounds of the model *)

\* No handler runs when it would leave more remote items than this.
MaxItems == 5

\* The request of a handler that fails with HttpError is one of the first
\* MaxFail requests (0: none fails).
MaxFail == 4

----------------------------------------------------------------------------
(* Values *)

\* Python's None, as an identifier and as a returned identifier.
None == 0

\* The identifier of the remote root folder (the alias 'root' names it).
ROOT == 1

\* destination passed by download_option when the input is empty: the
\* function object drive.download_folder, which is not a path.
DownloadFolderFunction == <<"<function download_folder>">>

folder_download == <<"Downloads">>
folder_upload == <<"Uploads">>

\* A mime type is <<prefix, rest>>, so that str.startswith can be computed.
FolderMime == <<"application/vnd.google-apps", ".folder">>
DocMime == <<"application/vnd.google-apps", ".document">>
PlainMime == <<"text/plain", "">>

startswith(m, t) == m[1] = t

Item(i, nm, mt, ps, tr) ==
    [id |-> i, name |-> nm, mimeType |-> mt, parents |-> ps, trashed |-> tr]

R(w, ret, exc) == [w |-> w, ret |-> ret, exc |-> exc]

Max(S) == CHOOSE x \in S : \A y \in S : y <= x
Min(S) == CHOOSE x \in S : \A y \in S : x <= y

RECURSIVE Ordered(_, _)
\* The identifiers S as the sequence a listing returns them in: the remote
\* service fixes no order; the model takes ascending or descending.
Ordered(S, order) ==
    IF S = {} THEN <<>>
    ELSE LET x == IF order = "asc" THEN Min(S) ELSE Max(S)
         IN <<x>> \o Ordered(S \ {x}, order)

ItemOf(w, i) == CHOOSE it \in w.remote : it.id = i

InSeq(x, s) == \E k \in 1..Len(s) : s[k] = x

----------------------------------------------------------------------------
(* The remote service *)

\* Whether the next request of this handler fails with HttpError.
Fails(w) == w.n + 1 = w.failAt

\* One request sent to the service.
Sent(w, kind) == [w EXCEPT !.n = @ + 1, !.reqs = Append(@, kind)]

\* files().list(q="'<parent>' in parents"): trashed items are listed too.
ListChildren(w, parent) ==
    Ordered({it.id : it \in {x \in w.remote : InSeq(parent, x.parents)}}, w.order)

\* files().list(q="name='<n>' and trashed=false [and '<parent>' in parents]")
ListByName(w, nm, parent) ==
    Ordered({it.id : it \in {x \in w.remote :
                /\ x.name = nm
                /\ ~x.trashed
                /\ (parent # None => InSeq(parent, x.parents))}}, w.order)

NewId(w) == Max({ROOT} \cup {it.id : it \in w.remote}) + 1

\* files().create(body): an item without 'parents' is created in the root.
Created(w, nm, mt, parent) ==
    [w EXCEPT !.remote = @ \cup
        {Item(NewId(w), nm, mt, <<IF parent # None THEN parent ELSE ROOT>>, FALSE)},
              !.created = @ \cup {NewId(w)}]

Exists(w, i) == \E it \in w.remote : it.id = i

----------------------------------------------------------------------------
(* The local file system *)

NameOrder == <<"Downloads", "Uploads", "a", "b", "d">>

isfile(w, p) == \E e \in w.fs : e.path = p /\ e.kind # "dir"
isdir(w, p) == \E e \in w.fs : e.path = p /\ e.kind = "dir"
exists(w, p) == \E e \in w.fs : e.path = p

basename(p) == IF Len(p) = 0 THEN "" ELSE p[Len(p)]
dirname(p) == IF Len(p) = 0 THEN <<>> ELSE SubSeq(p, 1, Len(p) - 1)

RECURSIVE Filtered(_, _)
Filtered(s, S) ==
    IF s = <<>> THEN <<>>
    ELSE (IF Head(s) \in S THEN <<Head(s)>> ELSE <<>>) \o Filtered(Tail(s), S)

Reversed(s) == [k \in 1..Len(s) |-> s[Len(s) + 1 - k]]

\* os.listdir(p): the entries of directory p; the order is the file system's.
listdir(w, p) ==
    LET names == {e.path[Len(e.path)] :
                    e \in {x \in w.fs : Len(x.path) = Len(p) + 1
                                        /\ SubSeq(x.path, 1, Len(p)) = p}}
        asc == Filtered(NameOrder, names)
    IN IF w.order = "asc" THEN asc ELSE Reversed(asc)

----------------------------------------------------------------------------
(* The name cache and the uploads (drive.py) *)

Cached(w, nm) == nm \in DOMAIN w.cache

Put(c, nm, e) == [k \in DOMAIN c \cup {nm} |-> IF k = nm THEN e ELSE c[k]]

RECURSIVE CacheAll(_, _, _)
\* for file in files: existing_files_cache[file['name']] = {...}
CacheAll(w, c, ids) ==
    IF ids = <<>> THEN c
    ELSE LET f == ItemOf(w, Head(ids))
         IN CacheAll(w, Put(c, f.name, [id |-> f.id, mimeType |-> f.mimeType,
                                        parents |-> f.parents]), Tail(ids))

\* A refresh that lists the folder and stores nothing.
CacheLeftAlone(w, parent_folder_id) ==
    IF Fails(w) THEN R(Sent(w, "list"), None, "HttpError")
    ELSE R(Sent(w, "list"), None, "none")

\* update_existing_files_cache(service, parent_folder_id)
update_existing_files_cache(w, parent_folder_id) ==
    IF Fails(w) THEN R(Sent(w, "list"), None, "HttpError")
    ELSE R([Sent(w, "list") EXCEPT !.cache = CacheAll(w, @,
                ListChildren(w, IF parent_folder_id # None THEN parent_folder_id
                                ELSE ROOT))],
           None, "none")

\* The requests sent between world w and the later world x.
RequestsSince(w, x) == SubSeq(x.reqs, Len(w.reqs) + 1, Len(x.reqs))

\* What a call of check_file_exists is remembered by: its arguments, what the
\* cache held for the name when it was called, what it returned and where the
\* answer came from ("cache", "remote", or "error" when the listing failed).
CheckRecord(w, x, nm, parent, ret, src) ==
    [name |-> nm, parent |-> parent, ret |-> ret, src |-> src,
     cached |-> Cached(w, nm),
     parents |-> IF Cached(w, nm) THEN w.cache[nm].parents ELSE <<>>,
     entry |-> IF Cached(w, nm) THEN w.cache[nm].id ELSE None,
     reqs |-> RequestsSince(w, x),
     before |-> w.remote]

Checked(w, x, nm, parent, ret, src, exc) ==
    R([x EXCEPT !.checks = Append(@, CheckRecord(w, x, nm, parent, ret, src))], ret, exc)

CacheHitAnyParent(w, file_name, destination_parent_id) ==
    Cached(w, file_name)

\* drive.py 225-227: the name is cached with this parent among its parents.
CacheHit(w, file_name, destination_parent_id) ==
    /\ Cached(w, file_name)
    /\ InSeq(destination_parent_id, w.cache[file_name].parents)

\* drive.py 236-242: the listing answered with files.
CheckAnswered(w, w1, file_name, destination_parent_id, files) ==
    IF files # <<>>
    THEN Checked(w, [w1 EXCEPT !.cache = Put(@, file_name,
                        [id |-> files[1], parents |-> <<destination_parent_id>>])],
                 file_name, destination_parent_id, files[1], "remote", "none")
    ELSE Checked(w, w1, file_name, destination_parent_id, None, "remote", "none")

check_file_exists(w, file_name, destination_parent_id) ==
    IF CacheHit(w, file_name, destination_parent_id)
    THEN Checked(w, w, file_name, destination_parent_id, w.cache[file_name].id,
                 "cache", "none")
    ELSE IF Fails(w)
    THEN Checked(w, Sent(w, "list"), file_name, destination_parent_id, None,
                 "error", "HttpError")
    ELSE CheckAnswered(w, Sent(w, "list"), file_name, destination_parent_id,
                       ListByName(w, file_name, destination_parent_id))

\* What a call of upload_file is remembered by: its arguments, the store it
\* was called on, what it returned and the item its create request made.
Uploaded(w, x, nm, parent, ret, made) ==
    R([x EXCEPT !.ufs = Append(@, [name |-> nm, parent |-> parent, ret |-> ret,
                                    made |-> made, before |-> w.remote,
                                    after |-> x.remote, cache |-> x.cache,
                                    reqs |-> RequestsSince(w, x)])],
      ret, "none")

\* drive.py 276-281: the cache was refreshed (u), or the refresh raised.
UploadFileRefreshed(w, file_name, destination_parent_id, id, u) ==
    IF u.exc # "none" THEN Uploaded(w, u.w, file_name, destination_parent_id, None, id)
    ELSE Uploaded(w, u.w, file_name, destination_parent_id, id, id)

\* drive.py 265-276: nothing of that name was found (w1: the world then).
UploadFileCreate(w, file_name, destination_parent_id, w1) ==
    IF Fails(w1)
    THEN Uploaded(w, Sent(w1, "create"), file_name, destination_parent_id, None, None)
    ELSE UploadFileRefreshed(w, file_name, destination_parent_id, NewId(w1),
            update_existing_files_cache(
                Created(Sent(w1, "create"), file_name, PlainMime, destination_parent_id),
                destination_parent_id))

\* drive.py 261-263: c is what check_file_exists answered.
UploadFileChecked(w, file_name, destination_parent_id, c) ==
    IF c.exc # "none" THEN Uploaded(w, c.w, file_name, destination_parent_id, None, None)
    ELSE IF c.ret # None
    THEN Uploaded(w, c.w, file_name, destination_parent_id, c.ret, None)
    ELSE UploadFileCreate(w, file_name, destination_parent_id, c.w)

upload_file(w, file_path, destination_parent_id) ==
    UploadFileChecked(w, basename(file_path), destination_parent_id,
        check_file_exists(w, basename(file_path), destination_parent_id))

\* search_items: the children of the parent, [] on any error.
search_items(w, destination_parent_id) ==
    IF Fails(w) THEN R(Sent(w, "list"), <<>>, "none")
    ELSE R(Sent(w, "list"),
           ListChildren(w, IF destination_parent_id = None THEN ROOT
                           ELSE destination_parent_id), "none")

\* existing_items_info[folder_name] of the dict comprehension over
\* existing_items: the last item of that name wins; None when there is none.
InfoOf(w, ids, nm) ==
    LET K == {k \in 1..Len(ids) : ItemOf(w, ids[k]).name = nm}
    IN IF K = {} THEN None ELSE ids[Max(K)]

RECURSIVE upload_folder(_, _, _, _)
RECURSIVE UploadEntries(_, _, _, _)

\* drive.py 335-339: one entry of the local folder.
UploadEntry(w, item_path, uploaded_folder_id) ==
    IF isfile(w, item_path) THEN upload_file(w, item_path, uploaded_folder_id).w
    ELSE IF isdir(w, item_path)
    THEN upload_folder(w, item_path, FALSE, uploaded_folder_id).w
    ELSE w

\* drive.py 334-339: the loop over os.listdir(folder_path).
UploadEntries(w, folder_path, items, uploaded_folder_id) ==
    IF items = <<>> THEN w
    ELSE UploadEntries(UploadEntry(w, Append(folder_path, Head(items)),
                                   uploaded_folder_id),
                       folder_path, Tail(items), uploaded_folder_id)

\* What a call of upload_folder is remembered by.
FolderUploaded(w, x, folder_path, slash, parent, ret, made) ==
    R([x EXCEPT !.folders = Append(@, [name |-> basename(folder_path), slash |-> slash,
                    path |-> folder_path, parent |-> parent, ret |-> ret,
                    made |-> made, before |-> w.remote, after |-> x.remote])],
      ret, "none")

\* drive.py 333-341: the entries are uploaded into the folder id.
UploadFolderInto(w, w1, folder_path, slash, parent, id, made) ==
    FolderUploaded(w, UploadEntries(w1, folder_path, listdir(w1, folder_path), id),
                   folder_path, slash, parent, id, made)

\* drive.py 314-331: found is the item of that name among the parent's
\* children (None: there is none).
UploadFolderResolved(w, folder_path, destination_parent_id, w1, found) ==
    IF found # None /\ ItemOf(w1, found).mimeType = FolderMime
    THEN UploadFolderInto(w, w1, folder_path, FALSE, destination_parent_id, found, None)
    ELSE IF Fails(w1)
    THEN FolderUploaded(w, Sent(w1, "create"), folder_path, FALSE,
                        destination_parent_id, None, None)
    ELSE UploadFolderInto(w, Created(Sent(w1, "create"), basename(folder_path),
                                     FolderMime, destination_parent_id),
                          folder_path, FALSE, destination_parent_id,
                          NewId(w1), NewId(w1))

\* drive.py 308-312
UploadFolderSearched(w, folder_path, destination_parent_id, s) ==
    UploadFolderResolved(w, folder_path, destination_parent_id, s.w,
                         InfoOf(s.w, s.ret, basename(folder_path)))

\* upload_folder(service, folder_path, destination_parent_id); slash says
\* whether folder_path ends with '/'.
upload_folder(w, folder_path, slash, destination_parent_id) ==
    IF slash
    THEN UploadFolderInto(w, w, folder_path, TRUE, destination_parent_id,
                          destination_parent_id, None)
    ELSE UploadFolderSearched(w, folder_path, destination_parent_id,
                              search_items(w, destination_parent_id))

\* upload without the test of os.path.exists: what is no file is taken for
\* a folder.
upload_unchecked(w, path, slash, destination_parent_id) ==
    IF isfile(w, path) THEN upload_file(w, path, destination_parent_id)
    ELSE upload_folder(w, path, slash, destination_parent_id)

\* upload(service, path, destination_parent_id)
upload(w, path, slash, destination_parent_id) ==
    IF ~exists(w, path) THEN R(w, None, "none")
    ELSE IF isfile(w, path) THEN upload_file(w, path, destination_parent_id)
    ELSE upload_folder(w, path, slash, destination_parent_id)

\* create_folder(service, folder_name, parent_folder_id)
create_folder(w, folder_name, parent_folder_id) ==
    IF Fails(w) THEN R(Sent(w, "create"), None, "none")
    ELSE R(Created(Sent(w, "create"), folder_name, FolderMime, parent_folder_id),
           NewId(w), "none")

----------------------------------------------------------------------------
(* The downloads (drive.py) *)

\* os.path.join(destination, name); destination may be no path at all.
IsPath(destination) == destination # DownloadFolderFunction

Prefixes(p) == {SubSeq(p, 1, k) : k \in 1..Len(p)}

\* What open(file_path, 'wb') raises, "none" when it opens the file.
OpenError(w, file_path) ==
    IF isdir(w, file_path) THEN "IsADirectoryError"
    ELSE IF Len(file_path) > 1 /\ ~isdir(w, dirname(file_path)) THEN "FileNotFoundError"
    ELSE "none"

\* The file system with file_path holding a file of this kind ("empty": opened
\* for writing, nothing written yet; "file": the content written).
Written(w, file_path, kind) ==
    [w EXCEPT !.fs = {e \in @ : e.path # file_path}
                        \cup {[path |-> file_path, kind |-> kind]}]

UnsupportedNever(mimeType) == FALSE

\* drive.py 96-97: any(mimeType.startswith(t) for t in unsupported_types)
Unsupported(mimeType) == startswith(mimeType, "application/vnd.google-apps")

\* get_media answers HttpError for an item without binary content.
MediaFails(w, item) == Fails(w) \/ startswith(item.mimeType, "application/vnd.google-apps")

\* What a call of download_file is remembered by.
Downloaded(w, x, file_id, destination, ret, exc) ==
    R([x EXCEPT !.dls = Append(@, [id |-> file_id, destination |-> destination,
                                   ret |-> ret, exc |-> exc,
                                   fsBefore |-> w.fs, fsAfter |-> x.fs])],
      ret, exc)

\* drive.py 92-110: the metadata was fetched (w1: the world then).
DownloadFileTo(w, w1, file_id, destination, file_metadata, file_path) ==
    IF Unsupported(file_metadata.mimeType)
    THEN Downloaded(w, w1, file_id, destination, FALSE, "none")
    ELSE IF OpenError(w1, file_path) # "none"
    THEN Downloaded(w, w1, file_id, destination, FALSE, OpenError(w1, file_path))
    ELSE IF MediaFails(w1, file_metadata)
    THEN Downloaded(w, Sent(Written(w1, file_path, "empty"), "get_media"),
                    file_id, destination, FALSE, "none")
    ELSE Downloaded(w, Sent(Written(w1, file_path, "file"), "get_media"),
                    file_id, destination, TRUE, "none")

download_file(w, file_id, destination) ==
    IF Fails(w) \/ ~Exists(w, file_id)
    THEN Downloaded(w, Sent(w, "get"), file_id, destination, FALSE, "none")
    ELSE IF ~IsPath(destination)
    THEN Downloaded(w, Sent(w, "get"), file_id, destination, FALSE, "TypeError")
    ELSE DownloadFileTo(w, Sent(w, "get"), file_id, destination, ItemOf(w, file_id),
                        Append(destination, ItemOf(w, file_id).name))

\* What os.makedirs(folder_path, exist_ok=True) raises, "none" when it succeeds.
MakedirsError(w, folder_path) ==
    IF \E q \in Prefixes(folder_path) : isfile(w, q) THEN "FileExistsError" ELSE "none"

Makedirs(w, folder_path) ==
    [w EXCEPT !.fs = @ \cup {[path |-> q, kind |-> "dir"] :
                                q \in {x \in Prefixes(folder_path) : ~exists(w, x)}}]

RECURSIVE download_folder(_, _, _)
RECURSIVE DownloadItems(_, _, _)

\* drive.py 66-69 and 147-150: a folder goes to download_folder, anything
\* else to download_file.
DownloadItem(w, item, destination) ==
    IF item.mimeType = FolderMime THEN download_folder(w, item.id, destination)
    ELSE download_file(w, item.id, destination)

\* The loop goes on after an item unless an exception left it (the returned
\* value of the item is dropped).
DownloadItemsNext(r, items, folder_path) ==
    IF r.exc # "none" THEN R(r.w, FALSE, r.exc)
    ELSE DownloadItems(r.w, items, folder_path)

\* drive.py 143-150: the loop over the folder's children.
DownloadItems(w, items, folder_path) ==
    IF items = <<>> THEN R(w, TRUE, "none")
    ELSE DownloadItemsNext(DownloadItem(w, ItemOf(w, Head(items)), folder_path),
                           Tail(items), folder_path)

\* What a call of download_folder is remembered by.
FolderDownloaded(x, folder_id, destination, ret, exc) ==
    R([x EXCEPT !.dfs = Append(@, [id |-> folder_id, destination |-> destination,
                                   ret |-> ret, exc |-> exc])], ret, exc)

\* drive.py 152-153: the loop ended (d); an exception that is no HttpError
\* goes on to the caller.
DownloadFolderDone(d, folder_id, destination) ==
    FolderDownloaded(d.w, folder_id, destination, d.exc = "none", d.exc)

\* drive.py 134-153: the folder's metadata was fetched (w1: the world then).
DownloadFolderInto(w1, folder_id, destination, folder_path) ==
    IF MakedirsError(w1, folder_path) # "none"
    THEN FolderDownloaded(w1, folder_id, destination, FALSE,
                          MakedirsError(w1, folder_path))
    ELSE IF Fails(w1)
    THEN FolderDownloaded(Sent(Makedirs(w1, folder_path), "list"), folder_id,
                          destination, FALSE, "none")
    ELSE DownloadFolderDone(
            DownloadItems(Sent(Makedirs(w1, folder_path), "list"),
                          ListChildren(w1, folder_id), folder_path),
            folder_id, destination)

download_folder(w, folder_id, destination) ==
    IF Fails(w) \/ ~Exists(w, folder_id)
    THEN FolderDownloaded(Sent(w, "get"), folder_id, destination, FALSE, "none")
    ELSE IF ~IsPath(destination)
    THEN FolderDownloaded(Sent(w, "get"), folder_id, destination, FALSE, "TypeError")
    ELSE DownloadFolderInto(Sent(w, "get"), folder_id, destination,
                            Append(destination, ItemOf(w, folder_id).name))

\* drive.py 71-73: every exception is caught, False is returned.
DownloadCaught(r) == R(r.w, IF r.exc # "none" THEN FALSE ELSE r.ret, "none")

\* download(service, content_id, destination)
download(w, content_id, destination) ==
    IF Fails(w) \/ ~Exists(w, content_id) THEN R(Sent(w, "get"), FALSE, "none")
    ELSE DownloadCaught(DownloadItem(Sent(w, "get"), ItemOf(w, content_id), destination))

----------------------------------------------------------------------------
(* The instruction runner (file_manager.py, main.py) *)

\* What read_instructions returns for a file that does not parse.
NoInstructions == [none |-> TRUE]

\* An instruction file is [json, data]: json says whether the text parses,
\* data is the object the text spells (for a malformed text, the object it
\* would spell with the syntax error repaired).
Task(source, destination) == [source |-> source, destination |-> destination]

InstructionFiles ==
    << [json |-> "malformed",
        data |-> [UPLOAD |-> <<Task(<<"Uploads", "a">>, None)>>,
                  DOWNLOAD |-> <<Task(3, <<"Downloads">>)>>]],
       [json |-> "object",
        data |-> [UPLOAD |-> <<Task(<<"nope">>, None), Task(<<"Uploads", "a">>, 2)>>,
                  DOWNLOAD |-> <<Task(3, <<"nodir">>), Task(3, <<"Downloads">>)>>]],
       [json |-> "object",
        data |-> [UPLOAD |-> <<[source |-> <<"Uploads", "a">>],
                               Task(<<"Uploads", "a">>, None)>>,
                  DOWNLOAD |-> <<Task(3, <<"Downloads">>)>>]],
       [json |-> "object",
        data |-> [DOWNLOAD |-> <<Task(4, <<"Downloads">>)>>]] >>

read_instructions_lenient(w, file) == R(w, file.data, "none")

\* read_instructions(file_path): None, and a message, for malformed JSON.
read_instructions(w, file) ==
    IF file.json = "malformed"
    THEN R([w EXCEPT !.out = @ \cup {"does not contain valid JSON"}], NoInstructions, "none")
    ELSE R(w, file.data, "none")

\* instructions.get(key, [])
get(instructions, key) ==
    IF key \in DOMAIN instructions THEN instructions[key] ELSE <<>>

HasKeys(task) == {"source", "destination"} \subseteq DOMAIN task

\* main.py 171, 174: one task is executed.
RunTask(w, kind, task) ==
    IF kind = "upload" THEN upload(w, task.source, FALSE, task.destination)
    ELSE download(w, task.source, task.destination)

\* What an executed task is remembered by.
TaskDone(w, r, kind, task) ==
    [r.w EXCEPT !.tasks = Append(@,
        IF kind = "upload"
        THEN [kind |-> kind, path |-> task.source, id |-> task.destination,
              ret |-> r.ret, ok |-> FALSE, found |-> exists(w, task.source),
              reqs |-> RequestsSince(w, r.w), cacheBefore |-> w.cache,
              cacheAfter |-> r.w.cache]
        ELSE [kind |-> kind, path |-> task.destination, id |-> task.source,
              ret |-> None, ok |-> r.ret, found |-> Exists(w, task.source),
              reqs |-> RequestsSince(w, r.w), cacheBefore |-> w.cache,
              cacheAfter |-> r.w.cache])]

RECURSIVE RunTasks(_, _, _)
\* main.py 170-174: one loop over the tasks of one kind; a task without
\* 'source' or 'destination' raises KeyError.
RunTasks(w, kind, tasks) ==
    IF tasks = <<>> THEN R(w, None, "none")
    ELSE IF ~HasKeys(Head(tasks)) THEN R(w, None, "KeyError")
    ELSE RunTasks(TaskDone(w, RunTask(w, kind, Head(tasks)), kind, Head(tasks)),
                  kind, Tail(tasks))

\* main.py 173-174: the downloads follow the uploads (u: how those ended).
RunDownloads(u, instructions) ==
    IF u.exc # "none" THEN u
    ELSE RunTasks(u.w, "download", get(instructions, "DOWNLOAD"))

\* main.py 167-174: None has no attribute 'get'.
RunParsed(i) ==
    IF i.ret = NoInstructions THEN R(i.w, None, "AttributeError")
    ELSE RunDownloads(RunTasks(i.w, "upload", get(i.ret, "UPLOAD")), i.ret)

\* main.py 165-176: the chosen file is read and its tasks are executed.
RunInstructions(w, chosen_file) == RunParsed(read_instructions(w, chosen_file))

----------------------------------------------------------------------------
(* The states the program starts in *)

\* The local files of the user: Uploads/a, Uploads/d/a.
InitFs ==
    { [path |-> <<"Uploads">>, kind |-> "dir"],
      [path |-> <<"Uploads", "a">>, kind |-> "file"],
      [path |-> <<"Uploads", "d">>, kind |-> "dir"],
      [path |-> <<"Uploads", "d", "a">>, kind |-> "file"] }

\* The remote stores the program is started on.
InitRemotes ==
    { { Item(2, "d", FolderMime, <<ROOT>>, FALSE),
        Item(3, "a", PlainMime, <<2>>, FALSE),
        Item(4, "b", DocMime, <<2>>, FALSE) },
      { Item(2, "d", FolderMime, <<ROOT>>, FALSE),
        Item(3, "a", PlainMime, <<2>>, TRUE),
        Item(4, "a", PlainMime, <<ROOT>>, FALSE) },
      { Item(2, "d", FolderMime, <<ROOT>>, FALSE),
        Item(3, "a", PlainMime, <<2>>, FALSE),
        Item(4, "a", PlainMime, <<2>>, FALSE),
        Item(5, "b", FolderMime, <<2>>, FALSE) } }

EmptyCache == [k \in {} |-> None]

\* What the user typed for a handler, each answer under its own name.
NoArg ==
    [name |-> "", parent |-> None, item |-> None, path |-> <<>>, slash |-> FALSE,
     choice |-> 0, answer |-> ""]

NoCalls ==
    [reqs |-> <<>>, created |-> {}, checks |-> <<>>, ufs |-> <<>>, folders |-> <<>>,
     dls |-> <<>>, dfs |-> <<>>, tasks |-> <<>>, out |-> {}, failed |-> FALSE]

Init ==
    /\ remote \in InitRemotes
    /\ cache = EmptyCache
    /\ fs = InitFs
    /\ pc = "auth"
    /\ service = None
    /\ tokenFile \in BOOLEAN
    /\ last = [op |-> "start", arg |-> NoArg, ret |-> None, ok |-> FALSE,
               exc |-> "none",
               remoteBefore |-> remote, fsBefore |-> fs, cacheBefore |-> cache,
               calls |-> NoCalls]

----------------------------------------------------------------------------
(* The inputs of the handlers *)

Orders == {"asc", "desc"}
FailAts == 0..MaxFail
ParentInputs == {None, 2}
FolderNames == {"a", "d"}
ItemIds == 2..(MaxItems + 1)
UploadPaths == {<<"Uploads", "a">>, <<"Uploads", "d">>}
\* An empty destination is <<>>.
Destinations == {<<>>, <<"Downloads">>}

\* The world a handler starts in: the program's state, no request sent yet,
\* the request that will fail and the order listings come in.
World(failAt, order) ==
    [remote |-> remote, cache |-> cache, fs |-> fs, n |-> 0, failAt |-> failAt,
     order |-> order, reqs |-> <<>>, created |-> {}, checks |-> <<>>, ufs |-> <<>>,
     folders |-> <<>>, dls |-> <<>>, dfs |-> <<>>, tasks |-> <<>>, out |-> {}]

CallsOf(w) ==
    [reqs |-> w.reqs, created |-> w.created, checks |-> w.checks, ufs |-> w.ufs,
     folders |-> w.folders, dls |-> w.dls, dfs |-> w.dfs, tasks |-> w.tasks,
     out |-> w.out, failed |-> (w.failAt \in 1..w.n)]

\* The handler op(arg) ended as r says: the program's state is r's world, an
\* exception nothing caught ends the program. ret is the identifier and ok the
\* boolean the handler's call returned.
Ended(op, arg, r, ret, ok) ==
    /\ Cardinality(r.w.remote) <= MaxItems
    /\ remote' = r.w.remote
    /\ cache' = r.w.cache
    /\ fs' = r.w.fs
    /\ pc' = IF r.exc = "none" THEN "loop" ELSE "crashed"
    /\ last' = [op |-> op, arg |-> arg, ret |-> ret, ok |-> ok, exc |-> r.exc,
                remoteBefore |-> remote, fsBefore |-> fs, cacheBefore |-> cache,
                calls |-> CallsOf(r.w)]
    /\ UNCHANGED <<service, tokenFile>>

\* A handler that sends nothing and changes nothing.
Idle(op, arg, nextpc) ==
    /\ pc' = nextpc
    /\ last' = [op |-> op, arg |-> arg, ret |-> None, ok |-> FALSE, exc |-> "none",
                remoteBefore |-> remote, fsBefore |-> fs, cacheBefore |-> cache,
                calls |-> NoCalls]
    /\ UNCHANGED <<remote, cache, fs, service, tokenFile>>

----------------------------------------------------------------------------
(* main.py: authenticate and the menu loop *)

\* create_folders_if_not_exist(*folders)
create_folders_if_not_exist(f, folders) ==
    f \cup {[path |-> q, kind |-> "dir"] :
                q \in {x \in folders : ~\E e \in f : e.path = x}}

\* authenticate without its loop: whatever get_authenticated_drive_service
\* returned is handed to main.
AuthenticateOnce ==
    /\ pc = "auth"
    /\ \E got \in {None, 1}, wrote \in BOOLEAN :
        /\ service' = got
        /\ tokenFile' = (tokenFile \/ wrote \/ got # None)
        /\ pc' = "loop"
        /\ fs' = create_folders_if_not_exist(fs,
                    {folder_download, folder_upload, <<"Tokens">>, <<"Instructions">>})
        /\ last' = [op |-> "authenticate", arg |-> NoArg, ret |-> got, ok |-> FALSE,
                    exc |-> "none", remoteBefore |-> remote, fsBefore |-> fs,
                    cacheBefore |-> cache, calls |-> NoCalls]
        /\ UNCHANGED <<remote, cache>>

\* One turn of authenticate's loop: get_authenticated_drive_service returns a
\* service or None (having written Tokens/token.json or not); on None the
\* user answers 'del', 'quit' or anything else.
Authenticate ==
    /\ pc = "auth"
    /\ \E got \in {None, 1}, wrote \in BOOLEAN, retry \in {"del", "quit", ""} :
        LET token == tokenFile \/ wrote
        IN /\ service' = got
           /\ IF got # None
              THEN /\ tokenFile' = TRUE
                   /\ ~wrote /\ retry = ""
                   /\ pc' = "loop"
                   /\ fs' = create_folders_if_not_exist(fs,
                               {folder_download, folder_upload, <<"Tokens">>,
                                <<"Instructions">>})
              ELSE /\ tokenFile' = (token /\ retry # "del")
                   /\ pc' = IF retry = "quit" THEN "exited" ELSE "auth"
                   /\ fs' = fs
           /\ last' = [op |-> "authenticate", arg |-> [NoArg EXCEPT !.answer = retry],
                       ret |-> got, ok |-> FALSE, exc |-> "none",
                       remoteBefore |-> remote, fsBefore |-> fs,
                       cacheBefore |-> cache, calls |-> NoCalls]
           /\ UNCHANGED <<remote, cache>>

\* Option 1: create_folder_option
CreateFolderOption ==
    /\ pc = "menu"
    /\ \E folder_name \in FolderNames, parent_folder_id \in ParentInputs,
          failAt \in 0..1 :
        LET r == create_folder(World(failAt, "asc"), folder_name, parent_folder_id)
        IN Ended("create_folder",
                 [NoArg EXCEPT !.name = folder_name, !.parent = parent_folder_id],
                 r, r.ret, FALSE)

\* Options 2 and 3: display_tree_option, display_drive_items_option; they
\* read the remote store and print.
DisplayOption ==
    /\ pc = "menu"
    /\ \E op \in {"display_drive_tree", "display_drive_items"} :
        Idle(op, NoArg, "loop")

\* Option 4: download_option; an empty destination passes download_folder.
DownloadOption ==
    /\ pc = "menu"
    /\ \E item_id \in ItemIds, destination \in Destinations,
          failAt \in FailAts, order \in Orders :
        LET r == download(World(failAt, order), item_id,
                          IF destination # <<>> THEN destination
                          ELSE DownloadFolderFunction)
        IN Ended("download", [NoArg EXCEPT !.item = item_id, !.path = destination],
                 r, None, r.ret)

\* Option 5: upload_option; the path exists, an empty destination is the root.
UploadOption ==
    /\ pc = "menu"
    /\ \E items_path \in UploadPaths, slash \in BOOLEAN, destination \in ParentInputs,
          failAt \in FailAts, order \in Orders :
        /\ slash => isdir(World(0, order), items_path)
        /\ LET r == upload(World(failAt, order), items_path, slash, destination)
           IN Ended("upload",
                    [NoArg EXCEPT !.path = items_path, !.slash = slash,
                                  !.parent = destination],
                    r, r.ret, FALSE)

\* Option 6: process_instructions with the files glob finds and the file
\* chosen (0: Enter, back to the menu).
ProcessInstructions ==
    /\ pc = "menu"
    /\ \E instruction_files \in {<<>>, InstructionFiles} :
       \E choice \in 0..Len(instruction_files), failAt \in FailAts, order \in Orders :
        IF choice = 0
        THEN failAt = 0 /\ order = "asc" /\ Idle("process_instructions", NoArg, "loop")
        ELSE Ended("process_instructions", [NoArg EXCEPT !.choice = choice],
                   RunInstructions(World(failAt, order), instruction_files[choice]),
                   None, FALSE)

\* Option 0: exit()
Exit ==
    /\ pc = "menu"
    /\ Idle("exit", NoArg, "exited")

\* case _: not a valid choice
InvalidChoice ==
    /\ pc = "menu"
    /\ Idle("invalid", NoArg, "loop")

\* main.py 189-209: the screen is cleared, the menu printed and a choice asked.
Prompt ==
    /\ pc = "loop"
    /\ Idle("menu", NoArg, "menu")

Next ==
    \/ Authenticate
    \/ Prompt
    \/ CreateFolderOption
    \/ DisplayOption
    \/ DownloadOption
    \/ UploadOption
    \/ ProcessInstructions
    \/ Exit
    \/ InvalidChoice

Spec == Init /\ [][Next]_vars

----------------------------------------------------------------------------
(* What the claims speak of *)

\* The parent an upload to destination_parent_id is meant for: the root
\* when none is given.
Target(destination_parent_id) ==
    IF destination_parent_id = None THEN ROOT ELSE destination_parent_id

\* The items named nm under the parent, in the store rem.
Under(rem, nm, parent) ==
    {it \in rem : it.name = nm /\ InSeq(parent, it.parents)}

Live(S) == {it \in S : ~it.trashed}

Ids(S) == {it.id : it \in S}

SeqRange(s) == {s[k] : k \in 1..Len(s)}

\* The calls of upload_file the last handler made, when no request failed.
UploadCalls == IF last.calls.failed THEN {} ELSE SeqRange(last.calls.ufs)

\* C1: whenever upload_file(f, P) is called while a non-trashed item named
\* basename(f) exists under P (the root when P is not given), it returns the
\* identifier of such an item, sends no create request and leaves the remote
\* store as it was.
C1_DuplicateUploadReturnsExisting ==
    \A u \in UploadCalls :
        Live(Under(u.before, u.name, Target(u.parent))) # {} =>
            /\ u.ret \in Ids(Live(Under(u.before, u.name, Target(u.parent))))
            /\ ~InSeq("create", u.reqs)
            /\ u.after = u.before

\* C2: upload_file returns an identifier without creating anything only when
\* an item of that name exists under the target parent (the root when the
\* parent is not given).
C2_SuppressedOnlyBySameParent ==
    \A u \in UploadCalls :
        (u.ret # None /\ ~InSeq("create", u.reqs)) =>
            Under(u.before, u.name, Target(u.parent)) # {}

\* C2, for a parent that is given: the statement holds there.
SuppressedOnlyBySameGivenParent ==
    \A u \in UploadCalls :
        (u.parent # None /\ u.ret # None /\ ~InSeq("create", u.reqs)) =>
            Under(u.before, u.name, u.parent) # {}

\* C3: check_file_exists answers from the name cache (no listing is
\* requested, the cached identifier is returned) only if the given parent is
\* among the parents of the cache entry of that name; when the name is cached
\* with other parents only, the remote listing is requested.
C3_CacheAnswersOnlyForMatchingParent ==
    \A c \in SeqRange(last.calls.checks) :
        /\ c.reqs = <<>> => (c.cached /\ InSeq(c.parent, c.parents) /\ c.ret = c.entry)
        /\ (c.cached /\ ~InSeq(c.parent, c.parents)) => c.reqs = <<"list">>

\* A call of check_file_exists for a name cached with other parents only,
\* which listed the remote store and found an item.
C3_Witness ==
    \E c \in SeqRange(last.calls.checks) :
        c.cached /\ ~InSeq(c.parent, c.parents) /\ c.reqs = <<"list">> /\ c.ret # None

\* The item of identifier i in the store, the children of a folder, the local
\* entry of a kind at a path and the local entries directly inside a path.
Remote(i) == CHOOSE it \in remote : it.id = i

Children(rem, i) == {it \in rem : InSeq(i, it.parents)}

NativeApp(it) == startswith(it.mimeType, "application/vnd.google-apps")

LocalAt(p, kind) == [path |-> p, kind |-> kind] \in fs

Entries(p) == {e \in fs : Len(e.path) = Len(p) + 1 /\ SubSeq(e.path, 1, Len(p)) = p}

\* The calls of download_folder the last handler made that returned True,
\* when no request failed.
FolderDownloads ==
    IF last.calls.failed THEN {} ELSE {d \in SeqRange(last.calls.dfs) : d.ret}

\* C4: after download_folder(folder_id, destination) returned True, the
\* directory destination/<folder name> exists, every remote child folder has
\* a directory and every remote child file of a downloadable type a file at
\* its name inside it, and the directory holds one entry per such child.
\* (Every folder of the subtree has a call of its own.)
C4_FolderDownloadMirrorsSubtree ==
    \A d \in FolderDownloads :
        LET p == Append(d.destination, Remote(d.id).name)
            C == Live(Children(remote, d.id))
        IN /\ LocalAt(p, "dir")
           /\ \A c \in C : c.mimeType = FolderMime => LocalAt(Append(p, c.name), "dir")
           /\ \A c \in C : ~NativeApp(c) => LocalAt(Append(p, c.name), "file")
           /\ Cardinality(Entries(p)) >=
                Cardinality({c \in C : c.mimeType = FolderMime \/ ~NativeApp(c)})

\* The instruction file the last handler ran, when it ran one.
RanFile == last.op = "process_instructions" /\ last.arg.choice # 0

ChosenFile == InstructionFiles[last.arg.choice]

\* C5: when the chosen instruction file holds malformed JSON, the error is
\* printed, no task is executed, no request is sent, and the local files, the
\* remote store and the name cache are as they were.
C5_MalformedInstructionsChangeNothing ==
    (RanFile /\ ChosenFile.json = "malformed") =>
        /\ "does not contain valid JSON" \in last.calls.out
        /\ last.calls.tasks = <<>>
        /\ last.calls.reqs = <<>>
        /\ last.calls.ufs = <<>> /\ last.calls.folders = <<>>
        /\ last.calls.dls = <<>> /\ last.calls.dfs = <<>>
        /\ fs = last.fsBefore
        /\ remote = last.remoteBefore
        /\ cache = last.cacheBefore

\* A malformed instruction file was chosen and reported.
C5_Witness ==
    /\ RanFile /\ ChosenFile.json = "malformed"
    /\ "does not contain valid JSON" \in last.calls.out
    /\ ChosenFile.data.UPLOAD # <<>>

\* C6: once the shell has started, the program is at the menu (or on its way
\* back to it) unless choice '0' ended it.
C6_LeavesMenuOnlyThroughExit ==
    (service # None /\ pc \notin {"loop", "menu"}) => (pc = "exited" /\ last.op = "exit")

\* C7: for an instruction file that parses, the executed tasks are the
\* entries of UPLOAD in list order followed by the entries of DOWNLOAD in list
\* order, each executed once.
C7_EveryTaskExecutedInOrder ==
    (RanFile /\ ChosenFile.json = "object") =>
        LET U == get(ChosenFile.data, "UPLOAD")
            D == get(ChosenFile.data, "DOWNLOAD")
            T == last.calls.tasks
        IN /\ Len(T) = Len(U) + Len(D)
           /\ \A k \in 1..Len(U) : T[k].kind = "upload" /\ T[k].path = U[k].source
           /\ \A k \in 1..Len(D) :
                T[Len(U) + k].kind = "download" /\ T[Len(U) + k].id = D[k].source

\* C7, for the tasks that were executed: they are a prefix of the entries of
\* UPLOAD followed by those of DOWNLOAD, in list order; a task that returned
\* None or False is followed by the next one.
ExecutedTasksArePrefixInOrder ==
    (RanFile /\ ChosenFile.json = "object") =>
        LET U == get(ChosenFile.data, "UPLOAD")
            D == get(ChosenFile.data, "DOWNLOAD")
            T == last.calls.tasks
        IN /\ Len(T) <= Len(U) + Len(D)
           /\ \A k \in 1..Len(T) :
                IF k <= Len(U) THEN T[k].kind = "upload" /\ T[k].path = U[k].source
                ELSE T[k].kind = "download" /\ T[k].id = D[k - Len(U)].source
           /\ (\A k \in 1..Len(U) : HasKeys(U[k])) /\ (\A k \in 1..Len(D) : HasKeys(D[k]))
                => Len(T) = Len(U) + Len(D)

\* C8: the download option with an item identifier and an empty destination
\* puts a downloadable file into 'Downloads' (no request failing).
C8_EmptyDestinationDownloadsToDefault ==
    (/\ last.op = "download" /\ last.arg.path = <<>> /\ ~last.calls.failed
     /\ \E it \in remote : it.id = last.arg.item /\ ~NativeApp(it)
                              /\ it.mimeType # FolderMime) =>
        /\ last.ok
        /\ LocalAt(Append(folder_download, Remote(last.arg.item).name), "file")

\* C9: a call of download_file for an item whose mime type starts with
\* 'application/vnd.google-apps' returns False and leaves the local file
\* system as it was (no file is created or opened), called by download or
\* by download_folder.
C9_UnsupportedTypesWriteNothing ==
    \A d \in SeqRange(last.calls.dls) :
        (\E it \in remote : it.id = d.id /\ NativeApp(it)) =>
            /\ d.ret = FALSE
            /\ d.fsAfter = d.fsBefore

\* download_folder reached download_file for a native-app item after having
\* fetched it, with a destination that is a path.
C9_Witness ==
    /\ ~last.calls.failed
    /\ \E f \in SeqRange(last.calls.dfs) : f.ret
    /\ \E d \in SeqRange(last.calls.dls) :
        /\ \E it \in remote : it.id = d.id /\ NativeApp(it)
        /\ IsPath(d.destination)
        /\ LocalAt(d.destination, "dir")

FolderCalls == IF last.calls.failed THEN {} ELSE SeqRange(last.calls.folders)

\* The live folders named nm under the parent, in the store rem.
FoldersUnder(rem, nm, parent) ==
    {it \in Live(Under(rem, nm, parent)) : it.mimeType = FolderMime}

\* What C11 says of one call f of upload_folder.
ResolvedAndFilled(f) ==
    /\ f.ret # None
    /\ \E it \in Under(f.after, f.name, Target(f.parent)) :
            it.id = f.ret /\ it.mimeType = FolderMime
    /\ FoldersUnder(f.before, f.name, Target(f.parent)) # {} =>
            (f.ret \in Ids(FoldersUnder(f.before, f.name, Target(f.parent)))
             /\ f.made = None)
    /\ FoldersUnder(f.before, f.name, Target(f.parent)) = {} => f.made = f.ret
    /\ \A e \in Entries(f.path) :
            IF e.kind = "dir"
            THEN \E g \in SeqRange(last.calls.folders) :
                    g.path = e.path /\ g.parent = f.ret
            ELSE \E u \in SeqRange(last.calls.ufs) :
                    u.name = basename(e.path) /\ u.parent = f.ret

\* C11: upload_folder(d, P), with or without a trailing '/', returns the
\* identifier of a folder named like d under P (the root when P is not
\* given), an existing one if there is one and a created one otherwise, and
\* every entry directly inside d is uploaded with that folder as parent.
C11_UploadFolderResolvesNamedFolder ==
    \A f \in FolderCalls : ResolvedAndFilled(f)

\* C11, for paths without a trailing '/': the statement holds there when no
\* request fails.
UploadFolderWithoutSlashResolves ==
    \A f \in FolderCalls : ~f.slash => ResolvedAndFilled(f)

\* The program is past authenticate: in the menu loop, or ended from there.
PastAuthenticate == pc \in {"loop", "menu", "crashed"} \/ (pc = "exited" /\ last.op = "exit")

\* A turn of authenticate's loop in which no service was obtained.
FailedTurn == pc = "auth" /\ pc' # "loop"

\* C12: the menu loop is entered only with a service; a turn of authenticate
\* that obtained none leaves the handle null and either exits (the user
\* typed 'quit') or stays in authenticate; Tokens/token.json is gone after
\* 'del' and is not removed after any other answer.
C12_AuthenticateReturnsService ==
    /\ [](PastAuthenticate => service # None)
    /\ [][FailedTurn =>
            /\ service' = None
            /\ pc' = IF last'.arg.answer = "quit" THEN "exited" ELSE "auth"
            /\ last'.arg.answer = "del" => ~tokenFile'
            /\ (last'.arg.answer # "del" /\ tokenFile) => tokenFile']_vars
    /\ [][(pc = "auth" /\ pc' = "loop") => service' # None]_vars

\* No service was obtained, the user typed 'del' and authenticate goes on
\* asking, Tokens/token.json being deleted.
C12_Witness ==
    /\ pc = "auth" /\ last.op = "authenticate" /\ last.ret = None
    /\ last.arg.answer = "del" /\ ~tokenFile /\ service = None

\* C13: when download returned True, every call of download_file it led to
\* for a downloadable item returned True and left the file at
\* destination/<name>, and every call of download_folder returned True and
\* left the directory at destination/<name>.
C13_DownloadTrueOnlyIfComplete ==
    (last.op = "download" /\ last.ok) =>
        /\ \A d \in SeqRange(last.calls.dls) :
            \A it \in remote : (it.id = d.id /\ ~NativeApp(it)) =>
                (d.ret /\ LocalAt(Append(d.destination, it.name), "file"))
        /\ \A f \in SeqRange(last.calls.dfs) :
            \A it \in remote : it.id = f.id =>
                (f.ret /\ LocalAt(Append(f.destination, it.name), "dir"))

\* C13, for a single file: download returns True only if the content was
\* written to destination/<name>.
FileDownloadTrueOnlyIfWritten ==
    (last.op = "download" /\ last.ok /\ last.calls.dfs = <<>>) =>
        LocalAt(Append(last.arg.path, Remote(last.arg.item).name), "file")

\* C14: every entry of the name cache carries the identifier, the mime type
\* and the parent identifiers.
C14_CacheEntriesCarryThreeFields ==
    \A n \in DOMAIN cache : DOMAIN cache[n] = {"id", "mimeType", "parents"}

\* C14, for the entries update_existing_files_cache wrote (those with a mime
\* type): they carry the three fields.
RefreshedEntriesCarryThreeFields ==
    \A n \in DOMAIN cache :
        "mimeType" \in DOMAIN cache[n] => DOMAIN cache[n] = {"id", "mimeType", "parents"}

\* C15: a call of upload with a path that does not exist returns None, sends
\* no request and leaves the name cache as it was.
C15_MissingPathUploadsNothing ==
    \A t \in SeqRange(last.calls.tasks) :
        (t.kind = "upload" /\ ~t.found) =>
            /\ t.ret = None
            /\ t.reqs = <<>>
            /\ t.cacheAfter = t.cacheBefore

\* upload was called with a missing path while the name cache held entries,
\* and the tasks after it went on.
C15_Witness ==
    /\ \E t \in SeqRange(last.calls.tasks) :
        /\ t.kind = "upload" /\ ~t.found /\ t.ret = None
        /\ DOMAIN t.cacheBefore # {}
    /\ \E t \in SeqRange(last.calls.tasks) : t.kind = "upload" /\ t.ret # None

\* C16: a call of upload_file whose create request made an object returns
\* that object's identifier (it returns None only when it created nothing).
C16_CreatedFileIsReturned ==
    \A u \in SeqRange(last.calls.ufs) :
        /\ u.made # None => u.ret = u.made
        /\ u.ret = None => u.after = u.before

\* The cache entry e under name n names an item of the store and parents of it.
Consistent(n, e) ==
    \E it \in remote :
        /\ it.id = e.id /\ it.name = n
        /\ \A k \in 1..Len(e.parents) : InSeq(e.parents[k], it.parents)

\* C17: each entry of the name cache holds the identifier of a remote item
\* of that name, and every parent recorded in it is a parent of that item.
C17_CacheConsistentWithRemote ==
    \A n \in DOMAIN cache : Consistent(n, cache[n])

\* C17, for the entries that record no missing parent (None): the statement
\* holds for them.
EntriesWithGivenParentsConsistent ==
    \A n \in DOMAIN cache : ~InSeq(None, cache[n].parents) => Consistent(n, cache[n])

====
